---- MODULE Spec2Model ----
(***************************************************************************)
(* Role / permission model and the two approval workflows of the           *)
(* Real-Estate-Net accounts application (accounts/models.py,               *)
(* accounts/admin.py, accounts/views.py).                                  *)
(*                                                                         *)
(* The database is the state: the User table, the agent applications, the  *)
(* admin permission requests, the admin activity log and the admin         *)
(* notifications.  Every request handler is one action; the permission     *)
(* request form is split at the point between its existence check and its  *)
(* INSERT, where another request can run.  Each save() commits on its own  *)
(* (Django's default autocommit; no handler opens a transaction).          *)
(***************************************************************************)
EXTENDS Integers, Sequences, FiniteSets, TLC

VARIABLES
    users,          \* User table: pk -> row
    applications,   \* RealEstateAgentApplication table: applicant pk -> row
    requests,       \* AdminPermissionRequest table: sequence, index = pk
    logs,           \* AdminActivityLog table: sequence of rows
    notifications,  \* AdminNotification table: sequence of rows
    sessions,       \* pks of the users that hold a login session
    inflight,       \* permission-request submissions between check and INSERT
    now,            \* the clock read by timezone.now()
    last            \* the last completed request and what it answered

vars == <<users, applications, requests, logs, notifications, sessions,
          inflight, now, last>>

(***************************************************************************)
(* Bounds of the model.                                                    *)
(***************************************************************************)
MaxMapKeys == 2      \* keys an admin_permissions map of the gate model holds
MaxTime == 2         \* readings of the clock in one behaviour
MaxRequests == 2     \* rows of the permission request table
NumWorkers == 2      \* concurrent submissions of the permission request form

NoTime == 0          \* a NULL DateTimeField
NoUser == 0          \* a NULL ForeignKey to User

(***************************************************************************)
(* accounts/models.py: the keys of admin_permissions and the choices.      *)
(***************************************************************************)
PermissionKeys ==
    {"manage_users", "manage_properties", "manage_payments", "manage_premium",
     "manage_admins", "system_settings", "view_logs", "delete_data",
     "export_data", "manage_content"}

PERMISSION_TYPES ==
    {"manage_users", "manage_properties", "manage_payments", "manage_premium",
     "manage_content", "view_logs", "export_data", "delete_data",
     "system_settings"}

APPLICATION_STATUS_CHOICES ==
    {"pending", "under_review", "approved", "rejected", "needs_info"}

UserTypes == {"buyer", "broker", "agent", "admin", "super_admin"}

\* dict.get(key, False)
Get(m, k) == IF k \in DOMAIN m THEN m[k] ELSE FALSE

\* d[key] = True on a copy of the dict
SetKey(m, k) == [x \in (DOMAIN m) \cup {k} |-> IF x = k THEN TRUE ELSE m[x]]

EmptyMap == [x \in {} |-> FALSE]

\* a worker that is not inside the permission request form
Idle == [admin |-> NoUser, permission_type |-> ""]

NoRequest ==
    [op |-> "none", actor |-> NoUser, target |-> {}, arg |-> "", notes |-> "",
     count |-> 0, ok |-> FALSE, outcome |-> ""]

\* what a handler answered: the request (op, actor, target, arg) and the
\* count and success flag of its message
Answer(op, actor, target, arg, count, ok) ==
    [op |-> op, actor |-> actor, target |-> target, arg |-> arg, notes |-> "",
     count |-> count, ok |-> ok, outcome |-> ""]

\* what a handler of the permission workflow answered: outcome names the
\* message it flashed or the exception that ended it
Reply(op, actor, target, arg, notes, outcome) ==
    [op |-> op, actor |-> actor, target |-> target, arg |-> arg,
     notes |-> notes, count |-> 0, ok |-> outcome \in {"checked", "done"},
     outcome |-> outcome]

(***************************************************************************)
(* User.can_* : the capability checks of the authorization gate.           *)
(***************************************************************************)
can_manage_properties(u) ==
    IF u.user_type = "super_admin" THEN TRUE
    ELSE u.is_admin_active /\ Get(u.admin_permissions, "manage_properties")

can_manage_users(u) ==
    IF u.user_type = "super_admin" THEN TRUE
    ELSE u.is_admin_active /\ Get(u.admin_permissions, "manage_users")

can_manage_premium(u) ==
    IF u.user_type = "super_admin" THEN TRUE
    ELSE u.is_admin_active /\ Get(u.admin_permissions, "manage_premium")

can_manage_payments(u) ==
    IF u.user_type = "super_admin" THEN TRUE
    ELSE u.is_admin_active /\ Get(u.admin_permissions, "manage_payments")

can_manage_system(u) ==
    IF u.user_type = "super_admin" THEN TRUE
    ELSE u.is_admin_active /\ Get(u.admin_permissions, "system_settings")

\* a gate that asks for an active admin before it lets a super_admin through
can_view_logs_active_only(u) ==
    u.is_admin_active
    /\ (u.user_type = "super_admin" \/ Get(u.admin_permissions, "view_logs"))

can_view_logs(u) ==
    IF u.user_type = "super_admin" THEN TRUE
    ELSE u.is_admin_active /\ Get(u.admin_permissions, "view_logs")

can_delete_data(u) ==
    IF u.user_type = "super_admin" THEN TRUE
    ELSE u.is_admin_active /\ Get(u.admin_permissions, "delete_data")

can_export_data(u) ==
    IF u.user_type = "super_admin" THEN TRUE
    ELSE u.is_admin_active /\ Get(u.admin_permissions, "export_data")

can_manage_content(u) ==
    IF u.user_type = "super_admin" THEN TRUE
    ELSE u.is_admin_active /\ Get(u.admin_permissions, "manage_content")

\* manage_admins read from the map, as the nine other capabilities are
can_manage_admins_from_map(u) ==
    IF u.user_type = "super_admin" THEN TRUE
    ELSE u.is_admin_active /\ Get(u.admin_permissions, "manage_admins")

can_manage_admins(u) == u.user_type = "super_admin"

\* the check that belongs to a capability
can(u, capability) ==
    CASE capability = "manage_properties" -> can_manage_properties(u)
      [] capability = "manage_users" -> can_manage_users(u)
      [] capability = "manage_premium" -> can_manage_premium(u)
      [] capability = "manage_payments" -> can_manage_payments(u)
      [] capability = "system_settings" -> can_manage_system(u)
      [] capability = "view_logs" -> can_view_logs(u)
      [] capability = "delete_data" -> can_delete_data(u)
      [] capability = "export_data" -> can_export_data(u)
      [] capability = "manage_content" -> can_manage_content(u)
      [] capability = "manage_admins" -> can_manage_admins(u)

is_super_admin(u) == u.user_type = "super_admin" /\ u.is_admin_active

is_normal_admin(u) == u.user_type = "admin" /\ u.is_admin_active

\* accounts/views.py is_admin_user, for a user that holds a session
is_admin_user(u) == is_normal_admin(u) \/ is_super_admin(u)

AllFalsePermissions == [k \in PermissionKeys |-> FALSE]

get_admin_permissions(u) ==
    IF ~u.is_admin_active THEN AllFalsePermissions ELSE u.admin_permissions

(***************************************************************************)
(* Rows of the User table.                                                 *)
(***************************************************************************)
UserRow(type, active, verified, vdate, adminActive, perms, staff, super) ==
    [user_type |-> type, is_active |-> active, is_verified |-> verified,
     verification_date |-> vdate, is_admin_active |-> adminActive,
     admin_permissions |-> perms, is_staff |-> staff, is_superuser |-> super]

\* the maps the gate model draws: any map of at most MaxMapKeys keys
BoundedMaps ==
    UNION {[S -> BOOLEAN] :
             S \in {T \in SUBSET PermissionKeys : Cardinality(T) <= MaxMapKeys}}

(***************************************************************************)
(* CustomUserAdmin actions that rewrite user_type (accounts/admin.py).     *)
(***************************************************************************)
SetUserType(queryset, type) ==
    [u \in DOMAIN users |->
        IF u \in queryset THEN [users[u] EXCEPT !.user_type = type]
        ELSE users[u]]

make_brokers(queryset) ==
    /\ users' = SetUserType(queryset, "broker")
    /\ last' = Answer("make_brokers", NoUser, queryset, "",
                      Cardinality(queryset), TRUE)
    /\ UNCHANGED <<applications, requests, logs, notifications, sessions,
                   inflight, now>>

make_buyers(queryset) ==
    /\ users' = SetUserType(queryset, "buyer")
    /\ last' = Answer("make_buyers", NoUser, queryset, "",
                      Cardinality(queryset), TRUE)
    /\ UNCHANGED <<applications, requests, logs, notifications, sessions,
                   inflight, now>>

make_agents(queryset) ==
    /\ users' = SetUserType(queryset, "agent")
    /\ last' = Answer("make_agents", NoUser, queryset, "",
                      Cardinality(queryset), TRUE)
    /\ UNCHANGED <<applications, requests, logs, notifications, sessions,
                   inflight, now>>

(***************************************************************************)
(* The authorization gate on its own: one account, any role, any map.      *)
(***************************************************************************)
Subject == 1

\* a caller asks the gate whether the account holds a capability
CheckCapability(u, capability) ==
    /\ last' = Answer("can", u, {u}, capability, 0, can(users[u], capability))
    /\ UNCHANGED <<users, applications, requests, logs, notifications,
                   sessions, inflight, now>>

\* Accounts of the admin roles carry any flag and any map; an account of the
\* other roles starts with the field defaults (is_admin_active False, {}).
GateInit ==
    /\ \E type \in UserTypes, adminActive \in BOOLEAN, perms \in BoundedMaps :
          /\ type \in {"buyer", "broker", "agent"}
                => (~adminActive /\ perms = EmptyMap)
          /\ users = [u \in {Subject} |->
                        UserRow(type, TRUE, TRUE, NoTime, adminActive, perms,
                                type \in {"admin", "super_admin"},
                                type = "super_admin")]
    /\ applications = [a \in {} |-> 0]
    /\ requests = <<>>
    /\ logs = <<>>
    /\ notifications = <<>>
    /\ sessions = {}
    /\ inflight = [w \in 1..NumWorkers |-> Idle]
    /\ now = 0
    /\ last = NoRequest

GateNext ==
    \/ \E capability \in PermissionKeys : CheckCapability(Subject, capability)
    \/ make_brokers({Subject})
    \/ make_buyers({Subject})
    \/ make_agents({Subject})

SpecGate == GateInit /\ [][GateNext]_vars

(***************************************************************************)
(* The agent application workflow (accounts/admin.py, accounts/views.py).  *)
(***************************************************************************)
NumAgents == 1

SuperAdminId == 1
AgentIds == 2..(1 + NumAgents)

\* the row setup_admin_users creates for SuperAdmin
SuperAdminRow ==
    UserRow("super_admin", TRUE, FALSE, NoTime, TRUE,
            [k \in PermissionKeys |-> TRUE], TRUE, TRUE)

\* the row register() saves for user_type == 'agent'
RegisteredAgentRow ==
    UserRow("agent", FALSE, FALSE, NoTime, FALSE, EmptyMap, FALSE, FALSE)

ApplicationRow(status, reviewedAt, reviewedBy) ==
    [status |-> status, reviewed_at |-> reviewedAt, reviewed_by |-> reviewedBy]

\* the users that may use the Django admin site on every model
DjangoAdmins == {u \in DOMAIN users : users[u].is_superuser}

\* views.agent_application: the applicant's form is saved with the defaults
agent_application(u) ==
    /\ u \in DOMAIN users
    /\ u \notin DOMAIN applications
    /\ applications' =
          [a \in (DOMAIN applications) \cup {u} |->
              IF a = u THEN ApplicationRow("pending", NoTime, NoUser)
              ELSE applications[a]]
    /\ last' = Answer("agent_application", u, {u}, "", 1, TRUE)
    /\ UNCHANGED <<users, requests, logs, notifications, sessions, inflight,
                   now>>

\* save_model, status == 'approved': lines 147-150
save_model_approved_applicant(row, t) ==
    [row EXCEPT !.is_active = TRUE, !.is_verified = TRUE,
                !.verification_date = t]

\* save_model, status in ['rejected', 'needs_info']: lines 161-163
save_model_locked_applicant(row) ==
    [row EXCEPT !.is_active = FALSE, !.is_verified = FALSE]

\* RealEstateAgentApplicationAdmin.save_model with change = True: the review
\* form of one application posts the status the reviewer selected
save_model(reviewer, a, status) ==
    /\ reviewer \in DjangoAdmins
    /\ a \in DOMAIN applications
    /\ status \in APPLICATION_STATUS_CHOICES
    /\ LET changed == status # applications[a].status
           reviewed == changed /\ status # "pending"
           t == now + 1
       IN  /\ reviewed => now < MaxTime
           /\ now' = IF reviewed THEN t ELSE now
           /\ users' =
                 IF reviewed /\ status = "approved"
                 THEN [users EXCEPT ![a] = save_model_approved_applicant(@, t)]
                 ELSE IF reviewed /\ status \in {"rejected", "needs_info"}
                 THEN [users EXCEPT ![a] = save_model_locked_applicant(@)]
                 ELSE users
           /\ applications' =
                 [applications EXCEPT ![a] =
                     IF reviewed THEN ApplicationRow(status, t, reviewer)
                     ELSE [@ EXCEPT !.status = status]]
           /\ last' = Answer("save_model", reviewer, {a}, status, 1, TRUE)
    /\ UNCHANGED <<requests, logs, notifications, sessions, inflight>>

\* an activation that leaves verification_date as it was
approve_applications_applicant_no_date(row, t) ==
    [row EXCEPT !.is_active = TRUE, !.is_verified = TRUE]

\* approve_applications: lines 179-182, the applicant of an approved row
approve_applications_applicant(row, t) ==
    [row EXCEPT !.is_active = TRUE, !.is_verified = TRUE,
                !.verification_date = t]

\* the bulk action "Approve selected applications"
approve_applications(reviewer, queryset) ==
    /\ reviewer \in DjangoAdmins
    /\ queryset # {} /\ queryset \subseteq DOMAIN applications
    /\ LET eligible == {a \in queryset :
                          applications[a].status \in {"pending", "under_review"}}
           t == now + 1
       IN  /\ eligible # {} => now < MaxTime
           /\ now' = IF eligible # {} THEN t ELSE now
           /\ applications' =
                 [a \in DOMAIN applications |->
                     IF a \in eligible THEN ApplicationRow("approved", t, reviewer)
                     ELSE applications[a]]
           /\ users' =
                 [u \in DOMAIN users |->
                     IF u \in eligible
                     THEN approve_applications_applicant(users[u], t)
                     ELSE users[u]]
           /\ last' = Answer("approve_applications", reviewer, queryset, "",
                             Cardinality(eligible), Cardinality(eligible) > 0)
    /\ UNCHANGED <<requests, logs, notifications, sessions, inflight>>

\* an update() that is not narrowed by the filter on the status
UpdateStatus_unfiltered(eligible, status, t, reviewer) ==
    [a \in DOMAIN applications |-> ApplicationRow(status, t, reviewer)]

\* queryset.filter(status__in=...).update(status=..., reviewed_at=...,
\* reviewed_by=...): the rows it rewrites; no other table is written
UpdateStatus(eligible, status, t, reviewer) ==
    [a \in DOMAIN applications |->
        IF a \in eligible THEN ApplicationRow(status, t, reviewer)
        ELSE applications[a]]

\* the bulk action "Reject selected applications"
reject_applications(reviewer, queryset) ==
    /\ reviewer \in DjangoAdmins
    /\ queryset # {} /\ queryset \subseteq DOMAIN applications
    /\ LET eligible == {a \in queryset :
                          applications[a].status
                             \in {"pending", "under_review", "needs_info"}}
           t == now + 1
       IN  /\ eligible # {} => now < MaxTime
           /\ now' = IF eligible # {} THEN t ELSE now
           /\ applications' = UpdateStatus(eligible, "rejected", t, reviewer)
           /\ last' = Answer("reject_applications", reviewer, queryset, "",
                             Cardinality(eligible), Cardinality(eligible) > 0)
    /\ UNCHANGED <<users, requests, logs, notifications, sessions, inflight>>

\* the bulk action "Request more information"
request_more_info(reviewer, queryset) ==
    /\ reviewer \in DjangoAdmins
    /\ queryset # {} /\ queryset \subseteq DOMAIN applications
    /\ LET eligible == {a \in queryset :
                          applications[a].status \in {"pending", "under_review"}}
           t == now + 1
       IN  /\ eligible # {} => now < MaxTime
           /\ now' = IF eligible # {} THEN t ELSE now
           /\ applications' = UpdateStatus(eligible, "needs_info", t, reviewer)
           /\ last' = Answer("request_more_info", reviewer, queryset, "",
                             Cardinality(eligible), Cardinality(eligible) > 0)
    /\ UNCHANGED <<users, requests, logs, notifications, sessions, inflight>>

(***************************************************************************)
(* CustomUserAdmin actions on the flags of the selected users.             *)
(***************************************************************************)
activate_users(queryset) ==
    /\ queryset # {} /\ queryset \subseteq DOMAIN users
    /\ users' = [u \in DOMAIN users |->
                    IF u \in queryset THEN [users[u] EXCEPT !.is_active = TRUE]
                    ELSE users[u]]
    /\ last' = Answer("activate_users", NoUser, queryset, "",
                      Cardinality(queryset), TRUE)
    /\ UNCHANGED <<applications, requests, logs, notifications, sessions,
                   inflight, now>>

deactivate_users(queryset) ==
    /\ queryset # {} /\ queryset \subseteq DOMAIN users
    /\ users' = [u \in DOMAIN users |->
                    IF u \in queryset THEN [users[u] EXCEPT !.is_active = FALSE]
                    ELSE users[u]]
    /\ last' = Answer("deactivate_users", NoUser, queryset, "",
                      Cardinality(queryset), TRUE)
    /\ UNCHANGED <<applications, requests, logs, notifications, sessions,
                   inflight, now>>

\* verify_agents: the count is taken from the filtered queryset after the
\* update has run
verify_agents(queryset) ==
    /\ queryset # {} /\ queryset \subseteq DOMAIN users
    /\ LET agents_to_verify(table) ==
               {u \in queryset : table[u].user_type = "agent"
                                   /\ ~table[u].is_verified}
           t == now + 1
       IN  /\ agents_to_verify(users) # {} => now < MaxTime
           /\ now' = IF agents_to_verify(users) # {} THEN t ELSE now
           /\ users' =
                 [u \in DOMAIN users |->
                     IF u \in agents_to_verify(users)
                     THEN [users[u] EXCEPT !.is_verified = TRUE,
                                           !.is_active = TRUE,
                                           !.verification_date = t]
                     ELSE users[u]]
           /\ last' = Answer("verify_agents", NoUser, queryset, "",
                             Cardinality(agents_to_verify(users')),
                             Cardinality(agents_to_verify(users')) > 0)
    /\ UNCHANGED <<applications, requests, logs, notifications, sessions,
                   inflight>>

revoke_verification(queryset) ==
    /\ queryset # {} /\ queryset \subseteq DOMAIN users
    /\ LET agents_to_revoke(table) ==
               {u \in queryset : table[u].user_type = "agent"
                                   /\ table[u].is_verified}
       IN  /\ users' =
                 [u \in DOMAIN users |->
                     IF u \in agents_to_revoke(users)
                     THEN [users[u] EXCEPT !.is_verified = FALSE,
                                           !.is_active = FALSE,
                                           !.verification_date = NoTime]
                     ELSE users[u]]
           /\ last' = Answer("revoke_verification", NoUser, queryset, "",
                             Cardinality(agents_to_revoke(users')),
                             Cardinality(agents_to_revoke(users')) > 0)
    /\ UNCHANGED <<applications, requests, logs, notifications, sessions,
                   inflight, now>>

(***************************************************************************)
(* views.user_login.                                                       *)
(***************************************************************************)
\* the agent branch without the test of is_verified
login_allowed_unverified(u) ==
    LET row == users[u]
    IN  IF row.user_type \in {"super_admin", "admin"} THEN row.is_admin_active
        ELSE IF row.user_type = "agent"
        THEN /\ u \in DOMAIN applications
             /\ applications[u].status = "approved"
             /\ row.is_active
        ELSE row.is_active

\* the branches of user_login that end in login(request, user), for a user
\* the form and authenticate() have accepted
login_allowed(u) ==
    LET row == users[u]
    IN  IF row.user_type \in {"super_admin", "admin"} THEN row.is_admin_active
        ELSE IF row.user_type = "agent"
        THEN /\ u \in DOMAIN applications
             /\ applications[u].status = "approved"
             /\ row.is_active
             /\ row.is_verified
        ELSE row.is_active

\* authenticated: the form is valid and authenticate() returned the user
user_login(u, authenticated) ==
    /\ u \in DOMAIN users
    /\ LET granted == authenticated /\ login_allowed(u)
       IN  /\ sessions' = IF granted THEN sessions \cup {u} ELSE sessions
           /\ last' = Answer("user_login", u, {u},
                             IF authenticated THEN "valid" ELSE "invalid",
                             0, granted)
    /\ UNCHANGED <<users, applications, requests, logs, notifications,
                   inflight, now>>

(***************************************************************************)
(* The application workflow from the state after setup_admin_users and     *)
(* the registration of the agents.                                         *)
(***************************************************************************)
Init ==
    /\ users = [u \in {SuperAdminId} \cup AgentIds |->
                  IF u = SuperAdminId THEN SuperAdminRow
                  ELSE RegisteredAgentRow]
    /\ applications = [a \in {} |-> 0]
    /\ requests = <<>>
    /\ logs = <<>>
    /\ notifications = <<>>
    /\ sessions = {}
    /\ inflight = [w \in 1..NumWorkers |-> Idle]
    /\ now = 0
    /\ last = NoRequest

AgentSelections == (SUBSET AgentIds) \ {{}}

Next ==
    \/ \E u \in AgentIds : agent_application(u)
    \/ \E a \in AgentIds, status \in APPLICATION_STATUS_CHOICES :
          save_model(SuperAdminId, a, status)
    \/ \E queryset \in AgentSelections :
          approve_applications(SuperAdminId, queryset)
    \/ \E queryset \in AgentSelections :
          reject_applications(SuperAdminId, queryset)
    \/ \E queryset \in AgentSelections :
          request_more_info(SuperAdminId, queryset)
    \/ \E queryset \in AgentSelections : activate_users(queryset)
    \/ \E queryset \in AgentSelections : deactivate_users(queryset)
    \/ \E queryset \in AgentSelections : verify_agents(queryset)
    \/ \E queryset \in AgentSelections : revoke_verification(queryset)
    \/ \E u \in AgentIds, authenticated \in BOOLEAN :
          user_login(u, authenticated)

Spec == Init /\ [][Next]_vars

(***************************************************************************)
(* The admin activity log and the admin notifications                      *)
(* (accounts/models.py).                                                   *)
(***************************************************************************)
Null == "NULL"              \* a field that was given no value
RemoteAddr == "127.0.0.1"   \* request.META['REMOTE_ADDR']

LogRow(admin, action_type, target_model, target_id, ip_address, is_high_risk) ==
    [admin |-> admin, action_type |-> action_type,
     target_model |-> target_model, target_id |-> target_id,
     ip_address |-> ip_address, is_high_risk |-> is_high_risk]

high_risk_actions == {"delete", "ban", "refund", "permission"}

\* a save() that stores is_high_risk as the caller gave it
AdminActivityLog_save_as_given(row) == row

\* AdminActivityLog.save: the flag is forced for the high-risk actions
AdminActivityLog_save(row) ==
    IF row.action_type \in high_risk_actions
    THEN [row EXCEPT !.is_high_risk = TRUE]
    ELSE row

\* ip_address is a GenericIPAddressField without null=True and without a
\* default: an INSERT that gives it no value raises IntegrityError
LogInsertable(row) == row.ip_address # Null

\* AdminActivityLog.objects.create(...)
AdminActivityLog_create(table, row) ==
    IF LogInsertable(row) THEN Append(table, AdminActivityLog_save(row))
    ELSE table

\* views.log_admin_activity
log_admin_activity(table, admin, action_type, target_model, target_id, is_high_risk) ==
    AdminActivityLog_create(table,
        LogRow(admin, action_type, target_model, target_id, RemoteAddr,
               is_high_risk))

NotificationRow(title, priority, related_admin) ==
    [title |-> title, notification_type |-> "permission_request",
     priority |-> priority, related_admin |-> related_admin]

(***************************************************************************)
(* The permission request workflow (accounts/models.py,                    *)
(* accounts/views.py).                                                     *)
(***************************************************************************)
NumAdmins == 1

AdminIds == 2..(1 + NumAdmins)

\* the permission_type values the form posts in this model: one of
\* PERMISSION_TYPES and one key of the map that is not among the choices
RequestedPermissions == {"manage_payments", "manage_admins"}

ReviewNotes == {"", "not now"}

\* the row setup_admin_users creates for RENAdmin
NormalAdminRow ==
    UserRow("admin", TRUE, FALSE, NoTime, TRUE,
            [k \in PermissionKeys |-> k = "manage_properties"], TRUE, FALSE)

\* AdminPermissionRequest.objects.create(requesting_admin, permission_type,
\* reason, justification): the other fields take their defaults
RequestRow(admin, permission_type) ==
    [requesting_admin |-> admin, permission_type |-> permission_type,
     status |-> "pending", reviewed_at |-> NoTime, reviewed_by |-> NoUser,
     review_notes |-> "", granted_at |-> NoTime]

\* a constraint on (requesting_admin, permission_type) that leaves status out
unique_together_without_status(table, row, self) ==
    \A i \in DOMAIN table :
        i # self => ~(/\ table[i].requesting_admin = row.requesting_admin
                      /\ table[i].permission_type = row.permission_type)

\* a table without the constraint
unique_together_dropped(table, row, self) == TRUE

\* Meta.unique_together = (requesting_admin, permission_type, status): the
\* row can be written when no other row of the table holds its triple
unique_together(table, row, self) ==
    \A i \in DOMAIN table :
        i # self => ~(/\ table[i].requesting_admin = row.requesting_admin
                      /\ table[i].permission_type = row.permission_type
                      /\ table[i].status = row.status)

\* a view that does not look for a pending request of the admin
PendingRequests_unchecked(admin, permission_type) == {}

\* filter(requesting_admin=..., permission_type=..., status='pending')
PendingRequests(admin, permission_type) ==
    {i \in DOMAIN requests :
        /\ requests[i].requesting_admin = admin
        /\ requests[i].permission_type = permission_type
        /\ requests[i].status = "pending"}

Busy == {w \in DOMAIN inflight : inflight[w] # Idle}

\* normal_admin_request_permission, lines 615-639: the checks of the POST.
\* dict(PERMISSION_TYPES)[permission_type] in the two warnings raises
\* KeyError for a permission_type that is not among the choices.
normal_admin_request_permission_check(w, admin, permission_type, complete) ==
    /\ inflight[w] = Idle
    /\ admin \in DOMAIN users
    /\ is_admin_user(users[admin])
    /\ Len(requests) + Cardinality(Busy) < MaxRequests
    /\ LET known == permission_type \in PERMISSION_TYPES
           outcome ==
               IF ~complete THEN "fields_required"
               ELSE IF Get(get_admin_permissions(users[admin]), permission_type)
               THEN (IF known THEN "already_granted" ELSE "KeyError")
               ELSE IF PendingRequests(admin, permission_type) # {}
               THEN (IF known THEN "already_pending" ELSE "KeyError")
               ELSE "checked"
       IN  /\ inflight' =
                 IF outcome = "checked"
                 THEN [inflight EXCEPT ![w] =
                          [admin |-> admin, permission_type |-> permission_type]]
                 ELSE inflight
           /\ last' = Reply("normal_admin_request_permission", admin, {},
                            permission_type, "", outcome)
    /\ UNCHANGED <<users, applications, requests, logs, notifications,
                   sessions, now>>

\* normal_admin_request_permission, lines 641-657: the INSERT and the log
normal_admin_request_permission_insert(w) ==
    /\ inflight[w] # Idle
    /\ LET admin == inflight[w].admin
           permission_type == inflight[w].permission_type
           row == RequestRow(admin, permission_type)
           inserted == unique_together(requests, row, 0)
           known == permission_type \in PERMISSION_TYPES
       IN  /\ requests' = IF inserted THEN Append(requests, row) ELSE requests
           /\ logs' =
                 IF inserted /\ known
                 THEN log_admin_activity(logs, admin, "create",
                                         "AdminPermissionRequest", 0, FALSE)
                 ELSE logs
           /\ last' = Reply("normal_admin_request_permission", admin,
                            IF inserted THEN {Len(requests) + 1} ELSE {},
                            permission_type, "",
                            IF ~inserted THEN "IntegrityError"
                            ELSE IF known THEN "done" ELSE "KeyError")
    /\ inflight' = [inflight EXCEPT ![w] = Idle]
    /\ UNCHANGED <<users, applications, notifications, sessions, now>>

\* AdminPermissionRequest.approve_request: the admin's row is saved, then
\* the request, then the log entry (created without ip_address) and the
\* notification; the first statement that raises ends the method
approve_request(id, super_admin) ==
    LET r == requests[id]
        t == now + 1
        approved == [r EXCEPT !.status = "approved", !.reviewed_at = t,
                              !.reviewed_by = super_admin, !.granted_at = t]
        saved == unique_together(requests, approved, id)
        entry == LogRow(super_admin, "permission", "User",
                        r.requesting_admin, Null, TRUE)
        logged == saved /\ LogInsertable(entry)
    IN  /\ users' = [users EXCEPT ![r.requesting_admin].admin_permissions =
                        SetKey(@, r.permission_type)]
        /\ requests' = IF saved THEN [requests EXCEPT ![id] = approved]
                       ELSE requests
        /\ logs' = IF saved THEN AdminActivityLog_create(logs, entry) ELSE logs
        /\ notifications' =
              IF logged
              THEN Append(notifications,
                          NotificationRow("Permission Request Approved", "high",
                                          r.requesting_admin))
              ELSE notifications
        /\ now' = t

\* a rejection that writes the requested key into the requesting admin's map
reject_request_users_granting(table, r) ==
    [table EXCEPT ![r.requesting_admin].admin_permissions =
        SetKey(@, r.permission_type)]

\* the User table after reject_request: the method reads requesting_admin
\* for the notification only and saves no user
reject_request_users(table, r) == table

\* AdminPermissionRequest.reject_request
reject_request(id, super_admin, reason) ==
    LET r == requests[id]
        t == now + 1
        rejected == [r EXCEPT !.status = "rejected", !.reviewed_at = t,
                              !.reviewed_by = super_admin,
                              !.review_notes = reason]
        saved == unique_together(requests, rejected, id)
        entry == LogRow(super_admin, "permission", "AdminPermissionRequest",
                        id, Null, FALSE)
        logged == saved /\ LogInsertable(entry)
    IN  /\ users' = reject_request_users(users, r)
        /\ requests' = IF saved THEN [requests EXCEPT ![id] = rejected]
                       ELSE requests
        /\ logs' = IF saved THEN AdminActivityLog_create(logs, entry) ELSE logs
        /\ notifications' =
              IF logged
              THEN Append(notifications,
                          NotificationRow("Permission Request Rejected",
                                          "medium", r.requesting_admin))
              ELSE notifications
        /\ now' = t

\* a gate that lets every active admin through
views_is_super_admin_any_admin(u) == is_admin_user(u)

\* accounts/views.py is_super_admin, for a user that holds a session
views_is_super_admin(u) == is_super_admin(u)

\* real_estate/admin_views.py is_super_admin, for a user that holds a session
admin_views_is_super_admin(u) ==
    u.user_type = "super_admin" /\ u.is_admin_active

\* a lookup by primary key that does not filter on the status
get_pending_any_status(request_id) == request_id \in DOMAIN requests

\* AdminPermissionRequest.objects.get(pk=request_id, status='pending')
\* finds a row
get_pending(request_id) ==
    /\ request_id \in DOMAIN requests
    /\ requests[request_id].status = "pending"

\* user_passes_test sends a caller that fails the gate of the view to the
\* login page before the body of the view runs
login_redirect(view, actor) ==
    /\ last' = Reply(view, actor, {}, "", "", "login_required")
    /\ UNCHANGED <<users, applications, requests, logs, notifications,
                   sessions, inflight, now>>

\* the POST branch the two resolution views share; the success message is
\* flashed when the model method has returned, which it does after its last
\* statement, the creation of the notification
ResolutionPost(view, actor, request_id, action, review_notes) ==
    /\ action \in {"approve", "reject"}
    /\ IF get_pending(request_id)
       THEN /\ now < MaxTime
            /\ IF action = "approve"
               THEN approve_request(request_id, actor)
               ELSE reject_request(request_id, actor, review_notes)
            /\ last' = Reply(view, actor, {request_id}, action,
                             IF action = "reject" THEN review_notes ELSE "",
                             IF Len(notifications') > Len(notifications)
                             THEN "done" ELSE "IntegrityError")
       ELSE /\ last' = Reply(view, actor, {request_id}, action, review_notes,
                             "not_found")
            /\ UNCHANGED <<users, requests, logs, notifications, now>>
    /\ UNCHANGED <<applications, sessions, inflight>>

\* views.super_admin_permission_requests: a POST of the user actor
super_admin_permission_requests(actor) ==
    /\ actor \in DOMAIN users
    /\ IF views_is_super_admin(users[actor])
       THEN \E request_id \in 1..MaxRequests, action \in {"approve", "reject"},
               review_notes \in ReviewNotes :
               ResolutionPost("super_admin_permission_requests", actor,
                              request_id, action, review_notes)
       ELSE login_redirect("super_admin_permission_requests", actor)

\* admin_views.admin_permission_requests: a POST of the user actor
admin_permission_requests(actor) ==
    /\ actor \in DOMAIN users
    /\ IF admin_views_is_super_admin(users[actor])
       THEN \E request_id \in 1..MaxRequests, action \in {"approve", "reject"},
               review_notes \in ReviewNotes :
               ResolutionPost("admin_permission_requests", actor,
                              request_id, action, review_notes)
       ELSE login_redirect("admin_permission_requests", actor)

\* the names of the two resolution views
ResolutionViews ==
    {"super_admin_permission_requests", "admin_permission_requests"}

PermInit ==
    /\ users = [u \in {SuperAdminId} \cup AdminIds |->
                  IF u = SuperAdminId THEN SuperAdminRow ELSE NormalAdminRow]
    /\ applications = [a \in {} |-> 0]
    /\ requests = <<>>
    /\ logs = <<>>
    /\ notifications = <<>>
    /\ sessions = {}
    /\ inflight = [w \in 1..NumWorkers |-> Idle]
    /\ now = 0
    /\ last = NoRequest

PermNext ==
    \/ \E w \in 1..NumWorkers, admin \in DOMAIN users,
          permission_type \in RequestedPermissions, complete \in BOOLEAN :
          normal_admin_request_permission_check(w, admin, permission_type,
                                                complete)
    \/ \E w \in 1..NumWorkers : normal_admin_request_permission_insert(w)
    \/ super_admin_permission_requests(SuperAdminId)
    \/ \E u \in DOMAIN users, capability \in RequestedPermissions :
          CheckCapability(u, capability)

SpecPerm == PermInit /\ [][PermNext]_vars

(***************************************************************************)
(* The resolution of permission requests through the two views, by any     *)
(* user that holds a session; the request form is posted by one request    *)
(* at a time.                                                              *)
(***************************************************************************)
ResolveNext ==
    \/ \E admin \in DOMAIN users, permission_type \in RequestedPermissions,
          complete \in BOOLEAN :
          normal_admin_request_permission_check(1, admin, permission_type,
                                                complete)
    \/ normal_admin_request_permission_insert(1)
    \/ \E actor \in DOMAIN users : super_admin_permission_requests(actor)
    \/ \E actor \in DOMAIN users : admin_permission_requests(actor)

SpecResolve == PermInit /\ [][ResolveNext]_vars

(***************************************************************************)
(* Claims about the authorization gate (checked under SpecGate).           *)
(***************************************************************************)
MapCapabilities == PermissionKeys \ {"manage_admins"}

\* C4: for an account with role super_admin every capability check answers
\* true, whatever the stored permissions map holds (an empty map, a map with
\* the capability set to false) and whatever is_admin_active is.
C4_SuperAdminBypass ==
    \A u \in DOMAIN users :
        (last.op = "can" /\ last.actor = u
            /\ users[u].user_type = "super_admin") => last.ok

\* a super_admin whose map denies the capability was asked about it
C4_Witness ==
    /\ last.op = "can"
    /\ users[last.actor].user_type = "super_admin"
    /\ last.arg \in DOMAIN users[last.actor].admin_permissions
    /\ ~users[last.actor].admin_permissions[last.arg]
    /\ last.ok

\* C5: for an account that is not a super_admin, a capability check of the
\* nine map capabilities answers true exactly when the role is admin, the
\* admin is active and the map holds the capability as true; for the roles
\* buyer, broker and agent it answers false whatever the flag and map hold.
C5_NonSuperExactlyAdminMap ==
    \A u \in DOMAIN users :
        (last.op = "can" /\ last.actor = u /\ last.arg \in MapCapabilities
            /\ users[u].user_type # "super_admin")
        => (last.ok <=> (/\ users[u].user_type = "admin"
                         /\ users[u].is_admin_active
                         /\ Get(users[u].admin_permissions, last.arg)))

(***************************************************************************)
(* Claims about the agent application workflow (checked under Spec).       *)
(***************************************************************************)
\* the last request was an approve of the selection it names
ApproveInvoked(r) ==
    \/ r.op = "approve_applications"
    \/ r.op = "save_model" /\ r.arg = "approved"

\* the last request was a reject of the selection it names
RejectInvoked(r) ==
    \/ r.op = "reject_applications"
    \/ r.op = "save_model" /\ r.arg = "rejected"

\* the last request marked the selection it names as needing information
NeedsInfoInvoked(r) ==
    \/ r.op = "request_more_info"
    \/ r.op = "save_model" /\ r.arg = "needs_info"

\* C1: approving an application whose status is pending or under_review,
\* by save_model or by the bulk approve action, ends with the application
\* approved and its account active, verified and with verification_date set.
C1_ApprovalCascade ==
    [][\A a \in DOMAIN applications :
          (/\ applications[a].status \in {"pending", "under_review"}
           /\ ApproveInvoked(last')
           /\ a \in last'.target)
          => (/\ applications'[a].status = "approved"
              /\ users'[a].is_active
              /\ users'[a].is_verified
              /\ users'[a].verification_date # NoTime)]_vars

\* the bulk approve action has just approved an application of an account
\* that was registered inactive and unverified
C1_Witness ==
    /\ last.op = "approve_applications"
    /\ last.count > 0
    /\ \E a \in last.target :
          /\ applications[a].status = "approved"
          /\ applications[a].reviewed_at = now
          /\ users[a].is_active /\ users[a].is_verified
          /\ users[a].verification_date = now

\* C2: an application that is rejected or marked needs_info, by save_model
\* or by the bulk reject / request-more-info actions, leaves its account
\* with is_active = false and is_verified = false.
C2_RejectLockout ==
    [][\A a \in DOMAIN applications :
          (/\ RejectInvoked(last') \/ NeedsInfoInvoked(last')
           /\ a \in last'.target
           /\ applications'[a].status # applications[a].status
           /\ applications'[a].status \in {"rejected", "needs_info"})
          => (~users'[a].is_active /\ ~users'[a].is_verified)]_vars

\* C3: approve or reject invoked on an application that is already approved
\* or rejected leaves the application and its account as they were, on the
\* bulk actions and on save_model alike; a bulk action whose whole selection
\* is in those states reports 0 affected records.
C3_TerminalNoop ==
    [][/\ \A a \in DOMAIN applications :
             (/\ applications[a].status \in {"approved", "rejected"}
              /\ ApproveInvoked(last') \/ RejectInvoked(last')
              /\ a \in last'.target)
             => (applications'[a] = applications[a] /\ users'[a] = users[a])
       /\ (/\ last'.op \in {"approve_applications", "reject_applications"}
           /\ \A a \in last'.target :
                 applications[a].status \in {"approved", "rejected"})
          => last'.count = 0]_vars

\* the conjunction user_login asks of an agent
AgentCleared(u) ==
    /\ u \in DOMAIN applications
    /\ applications[u].status = "approved"
    /\ users[u].is_active
    /\ users[u].is_verified

\* C7: user_login establishes a session for an agent only if its
\* application exists and is approved and the account is active and
\* verified; in every other combination the attempt leaves the sessions as
\* they were.
C7_AgentLoginGate ==
    [][\A u \in DOMAIN users :
          (/\ last'.op = "user_login"
           /\ last'.actor = u
           /\ users[u].user_type = "agent"
           /\ ~AgentCleared(u))
          => (sessions' = sessions /\ ~last'.ok)]_vars

\* an agent with an approved application and an active but unverified
\* account presented valid credentials and was turned away
C7_Witness ==
    /\ last.op = "user_login"
    /\ last.arg = "valid"
    /\ users[last.actor].user_type = "agent"
    /\ last.actor \in DOMAIN applications
    /\ applications[last.actor].status = "approved"
    /\ users[last.actor].is_active
    /\ ~users[last.actor].is_verified
    /\ ~last.ok
    /\ last.actor \notin sessions

(***************************************************************************)
(* Claims about the permission request workflow (checked under SpecPerm).  *)
(***************************************************************************)
\* C6: manage_admins is held by super_admin only: after any sequence of
\* submissions and approvals, also of a request whose permission_type is
\* manage_admins, can_manage_admins answers false for an account whose role
\* is admin.
C6_ManageAdminsSuperOnly ==
    \A u \in DOMAIN users :
        (/\ last.op = "can"
         /\ last.actor = u
         /\ last.arg = "manage_admins"
         /\ users[u].user_type = "admin") => ~last.ok

\* an admin whose approved request has put manage_admins = true into its
\* map asked for the capability and was denied
C6_Witness ==
    /\ last.op = "can"
    /\ last.arg = "manage_admins"
    /\ users[last.actor].user_type = "admin"
    /\ users[last.actor].is_admin_active
    /\ Get(users[last.actor].admin_permissions, "manage_admins")
    /\ \E i \in DOMAIN requests :
          /\ requests[i].requesting_admin = last.actor
          /\ requests[i].permission_type = "manage_admins"
          /\ requests[i].status = "approved"
    /\ ~last.ok

\* C8: at most one request with status pending exists per (requesting
\* admin, permission_type), also when two submissions of the same admin for
\* the same permission interleave between the existence check and the INSERT.
C8_OnePendingPerAdminPermission ==
    \A i, j \in DOMAIN requests :
        (/\ requests[i].status = "pending"
         /\ requests[j].status = "pending"
         /\ requests[i].requesting_admin = requests[j].requesting_admin
         /\ requests[i].permission_type = requests[j].permission_type)
        => i = j

\* a submission that had passed the existence check found the pending row
\* of an interleaved submission at its INSERT and was refused by the table
C8_Witness ==
    /\ last.op = "normal_admin_request_permission"
    /\ last.outcome = "IntegrityError"
    /\ PendingRequests(last.actor, last.arg) # {}

\* the admin has a request for the permission in one of the statuses
HasRequest(admin, permission_type, statuses) ==
    \E i \in DOMAIN requests :
        /\ requests[i].requesting_admin = admin
        /\ requests[i].permission_type = permission_type
        /\ requests[i].status \in statuses

\* the step is the INSERT half of a submission
InsertStep ==
    \E w \in DOMAIN inflight : inflight[w] # Idle /\ inflight'[w] = Idle

\* C9 as stated: once a request of an admin for P has been resolved, by
\* approval or by rejection, and none is pending, a new complete submission
\* of the admin for P passes the checks and its INSERT creates a new pending
\* request.
C9_ResubmitAfterResolution ==
    [][\A admin \in DOMAIN users, p \in PERMISSION_TYPES :
          (/\ last'.op = "normal_admin_request_permission"
           /\ last'.actor = admin
           /\ last'.arg = p
           /\ last'.outcome # "fields_required"
           /\ HasRequest(admin, p, {"approved", "rejected"})
           /\ PendingRequests(admin, p) = {})
          => IF InsertStep
             THEN /\ requests' = Append(requests, RequestRow(admin, p))
                  /\ last'.outcome = "done"
             ELSE last'.outcome = "checked"]_vars

\* C9 as amended: once a request of an admin for P has been rejected, a new
\* complete submission of the admin for P, made while the admin does not
\* hold P and has no request for P pending, passes the checks and its INSERT
\* creates a new pending request; once a request for P has been approved the
\* admin holds P and a new submission is refused as already granted and
\* creates nothing.
C9_ResubmitAfterRejection ==
    [][\A admin \in DOMAIN users, p \in PERMISSION_TYPES :
          (/\ last'.op = "normal_admin_request_permission"
           /\ last'.actor = admin
           /\ last'.arg = p
           /\ last'.outcome # "fields_required")
          => /\ (/\ HasRequest(admin, p, {"rejected"})
                 /\ PendingRequests(admin, p) = {}
                 /\ ~Get(get_admin_permissions(users[admin]), p))
                => IF InsertStep
                   THEN /\ requests' = Append(requests, RequestRow(admin, p))
                        /\ last'.outcome = "done"
                   ELSE last'.outcome = "checked"
             /\ (HasRequest(admin, p, {"approved"}) /\ ~InsertStep)
                => (last'.outcome = "already_granted" /\ requests' = requests)
      ]_vars

\* a submission has just created a pending request for a permission of
\* which an earlier request of the same admin stands rejected
C9_Witness ==
    /\ last.op = "normal_admin_request_permission"
    /\ last.outcome = "done"
    /\ \E i, j \in DOMAIN requests :
          /\ i < j
          /\ j \in last.target
          /\ requests[i].requesting_admin = last.actor
          /\ requests[j].requesting_admin = last.actor
          /\ requests[i].permission_type = last.arg
          /\ requests[j].permission_type = last.arg
          /\ requests[i].status = "rejected"
          /\ requests[j].status = "pending"

\* C10: a super_admin's reject of a pending request leaves the request with
\* status rejected and with reviewed_at, reviewed_by and review_notes
\* recorded, for every pending request, also one submitted again after an
\* earlier request of the same admin for the same permission was rejected.
C10_RejectRecordsReview ==
    [][\A id \in DOMAIN requests :
          (/\ last'.op \in ResolutionViews
           /\ last'.arg = "reject"
           /\ last'.target = {id}
           /\ requests[id].status = "pending")
          => (/\ requests'[id].status = "rejected"
              /\ requests'[id].reviewed_at # NoTime
              /\ requests'[id].reviewed_by = last'.actor
              /\ requests'[id].review_notes = last'.notes)]_vars

\* C11: a submission that fails a precondition of the view (a required
\* field is missing, the admin holds the permission, a pending request of
\* the admin for the permission exists) ends at the check: it creates no
\* request and no log entry and leaves the users, their permissions and the
\* existing requests as they were.
C11_FailedSubmissionChangesNothing ==
    [][\A admin \in DOMAIN users, p \in RequestedPermissions :
          (/\ last'.op = "normal_admin_request_permission"
           /\ last'.actor = admin
           /\ last'.arg = p
           /\ ~InsertStep
           /\ \/ last'.outcome = "fields_required"
              \/ Get(users[admin].admin_permissions, p)
              \/ HasRequest(admin, p, {"pending"}))
          => (/\ ~last'.ok
              /\ inflight' = inflight
              /\ requests' = requests
              /\ logs' = logs
              /\ notifications' = notifications
              /\ users' = users)]_vars

\* a complete submission was refused because a request of the admin for the
\* permission is pending, and the table holds that one request only
C11_Witness ==
    /\ last.op = "normal_admin_request_permission"
    /\ last.outcome = "already_pending"
    /\ HasRequest(last.actor, last.arg, {"pending"})
    /\ ~Get(users[last.actor].admin_permissions, last.arg)
    /\ Len(requests) = 1
    /\ Len(logs) = 1

\* the step is a super_admin's resolution, by the action named, of request
\* id, which was pending
Resolves(id, action) ==
    /\ last'.op \in ResolutionViews
    /\ last'.arg = action
    /\ last'.target = {id}
    /\ id \in DOMAIN requests
    /\ requests[id].status = "pending"

\* C12: approving a pending request for permission P sets P to true in the
\* map of the requesting admin, leaves every other key of that map and every
\* other user as they were, and leaves the request approved with
\* reviewed_at, reviewed_by and granted_at set.
C12_ApproveMergesAndRecords ==
    [][\A id \in DOMAIN requests :
          Resolves(id, "approve")
          => LET admin == requests[id].requesting_admin
                 p == requests[id].permission_type
             IN  /\ Get(users'[admin].admin_permissions, p)
                 /\ \A k \in DOMAIN users[admin].admin_permissions :
                       k # p => users'[admin].admin_permissions[k]
                                   = users[admin].admin_permissions[k]
                 /\ \A u \in DOMAIN users : u # admin => users'[u] = users[u]
                 /\ requests'[id].status = "approved"
                 /\ requests'[id].reviewed_at # NoTime
                 /\ requests'[id].reviewed_by = last'.actor
                 /\ requests'[id].granted_at # NoTime]_vars

\* C13: a reject of a permission request leaves the permissions map of
\* every user, the requesting admin included, as it was.
C13_RejectKeepsPermissions ==
    [][(/\ last'.op \in ResolutionViews
        /\ last'.arg = "reject")
       => \A u \in DOMAIN users :
             users'[u].admin_permissions = users[u].admin_permissions]_vars

\* a pending request has just been rejected and its admin does not hold the
\* permission it asked for
C13_Witness ==
    /\ last.op \in ResolutionViews
    /\ last.arg = "reject"
    /\ \E id \in last.target :
          /\ id \in DOMAIN requests
          /\ requests[id].status = "rejected"
          /\ requests[id].reviewed_at = now
          /\ ~Get(users[requests[id].requesting_admin].admin_permissions,
                  requests[id].permission_type)

\* C14: a super_admin's approval of a pending request adds one log entry
\* with action_type permission and is_high_risk true and one notification
\* addressed to the requesting admin, and the admin holds the permission.
C14_ApproveLogsAndNotifies ==
    [][\A id \in DOMAIN requests :
          Resolves(id, "approve")
          => LET admin == requests[id].requesting_admin
             IN  /\ Get(users'[admin].admin_permissions,
                        requests[id].permission_type)
                 /\ Len(logs') = Len(logs) + 1
                 /\ logs'[Len(logs')].action_type = "permission"
                 /\ logs'[Len(logs')].is_high_risk
                 /\ Len(notifications') = Len(notifications) + 1
                 /\ notifications'[Len(notifications')].related_admin = admin
      ]_vars

\* C15: a super_admin's reject of a pending request adds one log entry whose
\* stored is_high_risk is false and one notification addressed to the
\* requesting admin.
C15_RejectLogsAndNotifies ==
    [][\A id \in DOMAIN requests :
          Resolves(id, "reject")
          => /\ Len(logs') = Len(logs) + 1
             /\ ~logs'[Len(logs')].is_high_risk
             /\ Len(notifications') = Len(notifications) + 1
             /\ notifications'[Len(notifications')].related_admin
                   = requests[id].requesting_admin]_vars

(***************************************************************************)
(* The admin activity log under the views that write it and under          *)
(* views.delete_account (accounts/views.py, accounts/models.py).           *)
(***************************************************************************)
MaxLogs == 3         \* rows of the admin activity log

\* the action_type values the callers pass in this model: two of the forced
\* high-risk types and two of the others
LoggedActionTypes == {"login", "update", "delete", "permission"}

\* the rows setup_admin_users logs for the accounts it has created
SetupLogs ==
    [i \in 1..(1 + NumAdmins) |->
        AdminActivityLog_save(
            LogRow(SuperAdminId, "create", "User", i, RemoteAddr, FALSE))]

\* a view of a logged-in admin calls log_admin_activity(request, action_type,
\* description, is_high_risk=...)
log_admin_activity_call(admin, action_type, is_high_risk) ==
    /\ admin \in DOMAIN users
    /\ admin \in sessions
    /\ is_admin_user(users[admin])
    /\ Len(logs) < MaxLogs
    /\ logs' = log_admin_activity(logs, admin, action_type, Null, 0,
                                   is_high_risk)
    /\ last' = Reply("log_admin_activity", admin, {}, action_type,
                     IF is_high_risk THEN "is_high_risk=True"
                     ELSE "is_high_risk=False", "done")
    /\ UNCHANGED <<users, applications, requests, notifications, sessions,
                   inflight, now>>

\* the rows of a table that do not point at the deleted user (on_delete =
\* CASCADE); the rows that remain keep their order
Cascade(table, column, u) ==
    LET Keep(row) == row[column] # u IN SelectSeq(table, Keep)

\* on_delete = SET_NULL on reviewed_by
SetNull(row, u) ==
    IF row.reviewed_by = u THEN [row EXCEPT !.reviewed_by = NoUser] ELSE row

\* views.delete_account: a logged-in user of any type posts the form;
\* user_to_delete.delete() takes with it every row that points at the user
\* through a CASCADE foreign key
delete_account(u, confirmed) ==
    /\ u \in DOMAIN users
    /\ u \in sessions
    /\ IF confirmed
       THEN /\ users' = [v \in (DOMAIN users) \ {u} |-> users[v]]
            /\ applications' =
                  [a \in (DOMAIN applications) \ {u} |->
                      SetNull(applications[a], u)]
            /\ requests' =
                  LET kept == Cascade(requests, "requesting_admin", u)
                  IN  [i \in DOMAIN kept |-> SetNull(kept[i], u)]
            /\ logs' = Cascade(logs, "admin", u)
            /\ notifications' = Cascade(notifications, "related_admin", u)
            /\ sessions' = sessions \ {u}
       ELSE UNCHANGED <<users, applications, requests, logs, notifications,
                        sessions>>
    /\ last' = Answer("delete_account", u, {u},
                      IF confirmed THEN "DELETE" ELSE "", 0, confirmed)
    /\ UNCHANGED <<inflight, now>>

LogInit ==
    /\ users = [u \in {SuperAdminId} \cup AdminIds |->
                  IF u = SuperAdminId THEN SuperAdminRow ELSE NormalAdminRow]
    /\ applications = [a \in {} |-> 0]
    /\ requests = <<>>
    /\ logs = SetupLogs
    /\ notifications = <<>>
    /\ sessions = {}
    /\ inflight = [w \in 1..NumWorkers |-> Idle]
    /\ now = 0
    /\ last = NoRequest

LogNext ==
    \/ \E u \in DOMAIN users, authenticated \in BOOLEAN :
          user_login(u, authenticated)
    \/ \E admin \in DOMAIN users, action_type \in LoggedActionTypes,
          is_high_risk \in BOOLEAN :
          log_admin_activity_call(admin, action_type, is_high_risk)
    \/ \E u \in DOMAIN users, confirmed \in BOOLEAN :
          delete_account(u, confirmed)

SpecLog == LogInit /\ [][LogNext]_vars

(***************************************************************************)
(* Claims about the admin activity log (checked under SpecLog).            *)
(***************************************************************************)
\* C16: every stored log entry whose action_type is delete, ban, refund or
\* permission has is_high_risk true whatever the caller passed, and an entry
\* of any other action_type is stored with the is_high_risk the caller
\* passed.
C16_HighRiskDerivation ==
    [][/\ \A i \in DOMAIN logs' :
             logs'[i].action_type \in {"delete", "ban", "refund", "permission"}
                => logs'[i].is_high_risk
       /\ last'.op = "log_admin_activity"
          => /\ Len(logs') = Len(logs) + 1
             /\ logs'[Len(logs')].action_type = last'.arg
             /\ logs'[Len(logs')].is_high_risk
                   = (\/ last'.notes = "is_high_risk=True"
                      \/ last'.arg
                            \in {"delete", "ban", "refund", "permission"})
      ]_vars

\* a caller has just logged a delete with is_high_risk = False and the entry
\* is stored as high-risk
C16_Witness ==
    /\ last.op = "log_admin_activity"
    /\ last.arg = "delete"
    /\ last.notes = "is_high_risk=False"
    /\ logs[Len(logs)].action_type = "delete"
    /\ logs[Len(logs)].admin = last.actor
    /\ logs[Len(logs)].is_high_risk

\* C17: the admin activity log is append-only: whatever operation runs
\* (a login, a logged admin action, the deletion of an account by its
\* owner), every entry that was in the log is still there with the content
\* it had.
C17_LogAppendOnly ==
    [][\A i \in DOMAIN logs :
          /\ i \in DOMAIN logs'
          /\ logs'[i] = logs[i]]_vars

(***************************************************************************)
(* Claims about who resolves a permission request and when (checked under  *)
(* SpecResolve).                                                           *)
(***************************************************************************)
\* C18: a resolution, by approve or reject and through either view, of a
\* request that does not exist or is not pending is answered as a failure
\* and changes no user, request, log entry or notification.
C18_ResolveNotPendingChangesNothing ==
    [][\A id \in 1..MaxRequests :
          (/\ last'.op \in ResolutionViews
           /\ last'.target = {id}
           /\ \/ id \notin DOMAIN requests
              \/ requests[id].status # "pending")
          => (/\ ~last'.ok
              /\ last'.outcome = "not_found"
              /\ users' = users
              /\ requests' = requests
              /\ logs' = logs
              /\ notifications' = notifications)]_vars

\* a super_admin asked to approve a request that stands rejected and was
\* told that it was not found
C18_Witness ==
    /\ last.op \in ResolutionViews
    /\ last.arg = "approve"
    /\ last.outcome = "not_found"
    /\ \E id \in last.target :
          /\ id \in DOMAIN requests
          /\ requests[id].status = "rejected"
          /\ ~Get(users[requests[id].requesting_admin].admin_permissions,
                  requests[id].permission_type)

\* C19: a step of a user that is not a super_admin (a submission, a POST to
\* a resolution view) leaves every request in the status it had and every
\* permissions map as it was; its POST to a resolution view is turned away
\* at the gate.
C19_OnlySuperAdminResolves ==
    [][(/\ last'.actor \in DOMAIN users
        /\ users[last'.actor].user_type # "super_admin")
       => /\ \A i \in DOMAIN requests :
                /\ i \in DOMAIN requests'
                /\ requests'[i] = requests[i]
          /\ \A u \in DOMAIN users :
                users'[u].admin_permissions = users[u].admin_permissions
          /\ last'.op \in ResolutionViews
                => (last'.outcome = "login_required" /\ ~last'.ok)]_vars

\* an admin whose own request is pending posted to a resolution view and
\* was sent to the login page, the request still pending
C19_Witness ==
    /\ last.op \in ResolutionViews
    /\ last.outcome = "login_required"
    /\ users[last.actor].user_type = "admin"
    /\ users[last.actor].is_admin_active
    /\ \E i \in DOMAIN requests :
          /\ requests[i].requesting_admin = last.actor
          /\ requests[i].status = "pending"
          /\ ~Get(users[last.actor].admin_permissions,
                  requests[i].permission_type)

(***************************************************************************)
(* The views that change the flags of other accounts: normal_admin_agents  *)
(* (accounts/views.py) and the user endpoints of adminapi/views.py, called *)
(* by a user that holds a session.                                         *)
(***************************************************************************)
\* the agent accounts registered next to the admins
ManagedAgentIds == (2 + NumAdmins)..(1 + NumAdmins + NumAgents)

\* accounts/views.py is_admin, for a user that holds a session
views_is_admin(u) ==
    u.is_staff \/ u.is_superuser \/ u.user_type \in {"super_admin", "admin"}

\* adminapi/views.py is_admin, for a user that holds a session
adminapi_is_admin(u) == u.is_staff \/ u.is_superuser

\* views.normal_admin_agents, POST with agent_id and action
normal_admin_agents(actor, agent_id, action) ==
    /\ actor \in DOMAIN users
    /\ action \in {"verify", "unverify", "activate", "deactivate"}
    /\ IF ~views_is_admin(users[actor])
       THEN login_redirect("normal_admin_agents", actor)
       ELSE IF ~(/\ agent_id \in DOMAIN users
                 /\ users[agent_id].user_type \in {"agent", "broker"})
       THEN /\ last' = Reply("normal_admin_agents", actor, {agent_id}, action,
                             "", "not_found")
            /\ UNCHANGED <<users, applications, requests, logs,
                           notifications, sessions, inflight, now>>
       ELSE LET agent == users[agent_id]
                t == now + 1
                applies ==
                    \/ action = "verify" /\ ~agent.is_verified
                    \/ action = "unverify" /\ agent.is_verified
                    \/ action = "activate" /\ ~agent.is_active
                    \/ action = "deactivate" /\ agent.is_active
                saved ==
                    CASE action = "verify" ->
                           [agent EXCEPT !.is_verified = TRUE,
                                         !.verification_date = t]
                      [] action = "unverify" ->
                           [agent EXCEPT !.is_verified = FALSE,
                                         !.verification_date = NoTime]
                      [] action = "activate" ->
                           [agent EXCEPT !.is_active = TRUE]
                      [] action = "deactivate" ->
                           [agent EXCEPT !.is_active = FALSE]
            IN  IF applies
                THEN /\ Len(logs) < MaxLogs
                     /\ action = "verify" => now < MaxTime
                     /\ users' = [users EXCEPT ![agent_id] = saved]
                     /\ logs' = log_admin_activity(logs, actor,
                                   IF action = "verify" THEN "verify"
                                   ELSE "update", "User", agent_id, FALSE)
                     /\ now' = IF action = "verify" THEN t ELSE now
                     /\ last' = Reply("normal_admin_agents", actor, {agent_id},
                                      action, "", "done")
                     /\ UNCHANGED <<applications, requests, notifications,
                                    sessions, inflight>>
                ELSE /\ last' = Reply("normal_admin_agents", actor, {agent_id},
                                      action, "", "no_change")
                     /\ UNCHANGED <<users, applications, requests, logs,
                                    notifications, sessions, inflight, now>>

\* the user endpoints of adminapi/views.py share their shape: the gate,
\* then the write of the rows named by the POST, then a JSON answer
AdminApiPost(view, actor, ids, written, stamps) ==
    /\ actor \in DOMAIN users
    /\ IF ~adminapi_is_admin(users[actor])
       THEN login_redirect(view, actor)
       ELSE /\ stamps => now < MaxTime
            /\ users' = [u \in DOMAIN users |->
                            IF u \in ids THEN written[u] ELSE users[u]]
            /\ now' = IF stamps THEN now + 1 ELSE now
            /\ last' = Reply(view, actor, ids, "", "", "done")
            /\ UNCHANGED <<applications, requests, logs, notifications,
                           sessions, inflight>>

\* adminapi.user_ban
user_ban(actor, user_id) ==
    /\ user_id \in DOMAIN users
    /\ AdminApiPost("user_ban", actor, {user_id},
                    [u \in DOMAIN users |->
                        [users[u] EXCEPT !.is_active = FALSE]], FALSE)

\* adminapi.user_unban
user_unban(actor, user_id) ==
    /\ user_id \in DOMAIN users
    /\ AdminApiPost("user_unban", actor, {user_id},
                    [u \in DOMAIN users |->
                        [users[u] EXCEPT !.is_active = TRUE]], FALSE)

\* adminapi.user_verify
user_verify(actor, user_id) ==
    /\ user_id \in DOMAIN users
    /\ AdminApiPost("user_verify", actor, {user_id},
                    [u \in DOMAIN users |->
                        [users[u] EXCEPT !.is_verified = TRUE,
                                         !.verification_date = now + 1]],
                    TRUE)

\* adminapi.users_bulk_ban: filter(pk__in=user_ids).update(is_active=False)
users_bulk_ban(actor, user_ids) ==
    /\ user_ids \subseteq DOMAIN users
    /\ AdminApiPost("users_bulk_ban", actor, user_ids,
                    [u \in DOMAIN users |->
                        [users[u] EXCEPT !.is_active = FALSE]], FALSE)

\* adminapi.users_bulk_verify: filter(pk__in=user_ids).update(is_verified=True)
users_bulk_verify(actor, user_ids) ==
    /\ user_ids \subseteq DOMAIN users
    /\ AdminApiPost("users_bulk_verify", actor, user_ids,
                    [u \in DOMAIN users |->
                        [users[u] EXCEPT !.is_verified = TRUE]], FALSE)

ManageInit ==
    /\ users = [u \in {SuperAdminId} \cup AdminIds \cup ManagedAgentIds |->
                  IF u = SuperAdminId THEN SuperAdminRow
                  ELSE IF u \in AdminIds THEN NormalAdminRow
                  ELSE RegisteredAgentRow]
    /\ applications = [a \in {} |-> 0]
    /\ requests = <<>>
    /\ logs = SetupLogs
    /\ notifications = <<>>
    /\ sessions = {}
    /\ inflight = [w \in 1..NumWorkers |-> Idle]
    /\ now = 0
    /\ last = NoRequest

ManagedSelections == (SUBSET ManagedAgentIds) \ {{}}

ManageNext ==
    \/ \E actor \in DOMAIN users, agent_id \in ManagedAgentIds,
          action \in {"verify", "unverify", "activate", "deactivate"} :
          normal_admin_agents(actor, agent_id, action)
    \/ \E actor \in DOMAIN users, user_id \in ManagedAgentIds :
          user_ban(actor, user_id)
    \/ \E actor \in DOMAIN users, user_id \in ManagedAgentIds :
          user_unban(actor, user_id)
    \/ \E actor \in DOMAIN users, user_id \in ManagedAgentIds :
          user_verify(actor, user_id)
    \/ \E actor \in DOMAIN users, user_ids \in ManagedSelections :
          users_bulk_ban(actor, user_ids)
    \/ \E actor \in DOMAIN users, user_ids \in ManagedSelections :
          users_bulk_verify(actor, user_ids)

SpecManage == ManageInit /\ [][ManageNext]_vars

(***************************************************************************)
(* Claims about the gate of the account-managing views (checked under      *)
(* SpecManage).                                                            *)
(***************************************************************************)
\* C20: an operation that changes the is_active or is_verified flag of
\* another account takes effect only when its caller is a super_admin or an
\* active admin whose permissions map holds manage_users = true.
C20_FlagChangeNeedsManageUsers ==
    [][\A a \in DOMAIN users :
          (\/ users'[a].is_active # users[a].is_active
           \/ users'[a].is_verified # users[a].is_verified)
          => /\ last'.actor \in DOMAIN users
             /\ LET caller == users[last'.actor]
                IN  \/ caller.user_type = "super_admin"
                    \/ /\ caller.user_type = "admin"
                       /\ caller.is_admin_active
                       /\ Get(caller.admin_permissions, "manage_users")]_vars

(***************************************************************************)
(* The review of several applications at once: the three bulk actions and  *)
(* save_model over NumReviewed applications that have been submitted       *)
(* (accounts/admin.py).                                                    *)
(***************************************************************************)
NumReviewed == 2     \* applications on the change list of the reviewer

ReviewedIds == 2..(1 + NumReviewed)

ReviewedSelections == (SUBSET ReviewedIds) \ {{}}

\* every agent has registered and posted the application form
BulkInit ==
    /\ users = [u \in {SuperAdminId} \cup ReviewedIds |->
                  IF u = SuperAdminId THEN SuperAdminRow
                  ELSE RegisteredAgentRow]
    /\ applications = [a \in ReviewedIds |->
                          ApplicationRow("pending", NoTime, NoUser)]
    /\ requests = <<>>
    /\ logs = <<>>
    /\ notifications = <<>>
    /\ sessions = {}
    /\ inflight = [w \in 1..NumWorkers |-> Idle]
    /\ now = 0
    /\ last = NoRequest

BulkNext ==
    \/ \E a \in ReviewedIds, status \in APPLICATION_STATUS_CHOICES :
          save_model(SuperAdminId, a, status)
    \/ \E queryset \in ReviewedSelections :
          approve_applications(SuperAdminId, queryset)
    \/ \E queryset \in ReviewedSelections :
          reject_applications(SuperAdminId, queryset)
    \/ \E queryset \in ReviewedSelections :
          request_more_info(SuperAdminId, queryset)

SpecBulk == BulkInit /\ [][BulkNext]_vars

(***************************************************************************)
(* Claims about the bulk review actions (checked under SpecBulk).          *)
(***************************************************************************)
\* the status a bulk action gives to the applications it transitions
BulkTarget(op) ==
    CASE op = "approve_applications" -> "approved"
      [] op = "reject_applications" -> "rejected"
      [] op = "request_more_info" -> "needs_info"

\* C21: a bulk action over a selection transitions the applications of the
\* selection whose status is eligible, which a pending one always is and
\* which depends on the status only; every other application, in the
\* selection or not, and its account stay as they were; the count reported
\* is the number of applications transitioned.
C21_BulkTransitionsEligibleOnly ==
    [][last'.op \in {"approve_applications", "reject_applications",
                     "request_more_info"}
       => LET moved == {a \in DOMAIN applications :
                           applications'[a] # applications[a]}
          IN  /\ moved \subseteq last'.target
              /\ \A a \in moved :
                    applications'[a].status = BulkTarget(last'.op)
              /\ \A a \in (DOMAIN applications) \ moved :
                    users'[a] = users[a]
              /\ \A a \in last'.target :
                    applications[a].status = "pending" => a \in moved
              /\ \A a, b \in last'.target :
                    applications[a].status = applications[b].status
                       => (a \in moved <=> b \in moved)
              /\ last'.count = Cardinality(moved)]_vars

\* a bulk action over two applications has just transitioned one of them
\* and skipped the other
C21_Witness ==
    /\ last.op \in {"approve_applications", "reject_applications"}
    /\ Cardinality(last.target) = 2
    /\ last.count = 1
    /\ \E a, b \in last.target :
          /\ applications[a].status = BulkTarget(last.op)
          /\ applications[a].reviewed_at = now
          /\ applications[b].reviewed_at # now
          /\ applications[b].status \in {"approved", "rejected"}

\* the statuses from which each bulk action is stated to transition
StatedEligible(op) ==
    CASE op = "approve_applications" ->
            {"pending", "under_review", "needs_info"}
      [] op = "reject_applications" ->
            {"pending", "under_review", "needs_info"}
      [] op = "request_more_info" -> {"pending", "under_review"}

\* C22: approve and reject transition the selected applications that are
\* pending, under_review or needs_info, request_more_info those that are
\* pending or under_review; a needs_info application that is approved, by
\* the bulk action or by save_model, becomes approved and its account active
\* and verified.
C22_EligibleStatuses ==
    [][/\ last'.op \in {"approve_applications", "reject_applications",
                        "request_more_info"}
          => \A a \in last'.target :
                applications[a].status \in StatedEligible(last'.op)
                   <=> applications'[a] # applications[a]
       /\ \A a \in DOMAIN applications :
             /\ \/ last'.op = "approve_applications"
                \/ last'.op = "save_model" /\ last'.arg = "approved"
             /\ a \in last'.target
             /\ applications[a].status = "needs_info"
             => /\ applications'[a].status = "approved"
                /\ users'[a].is_active
                /\ users'[a].is_verified]_vars

(***************************************************************************)
(* Claim about the verification actions of the user admin (checked under   *)
(* Spec).                                                                  *)
(***************************************************************************)
\* C30: verify_agents and revoke_verification report a count equal to the
\* number of accounts they changed, so that a step that changed an account
\* never reports that none was changed.
C30_VerifyCountMatchesChanges ==
    [][last'.op \in {"verify_agents", "revoke_verification"}
       => LET changed == {u \in DOMAIN users : users'[u] # users[u]}
          IN  /\ last'.count = Cardinality(changed)
              /\ changed # {} => last'.ok]_vars

(***************************************************************************)
(* Claim about the verification date (checked under SpecManage).           *)
(***************************************************************************)
\* C23: verification_date is stamped in exactly the steps that turn
\* is_verified of an account from false to true: every such step sets the
\* date to the time of the step, and no other step stamps a date.
C23_DateStampedOnVerifyOnly ==
    [][\A u \in DOMAIN users :
          LET flips == ~users[u].is_verified /\ users'[u].is_verified
              stamps == /\ users'[u].verification_date # NoTime
                        /\ users'[u].verification_date
                              # users[u].verification_date
          IN  flips <=> stamps]_vars

(***************************************************************************)
(* Registration (accounts/views.py register and agent_application with the *)
(* session of the browser, accounts/forms.py CustomUserCreationForm).  In  *)
(* this specification inflight[w] is the Django session of browser w.      *)
(***************************************************************************)
\* CustomUserCreationForm.REGISTRATION_USER_TYPES
REGISTRATION_USER_TYPES == {"broker", "buyer"}

\* the roles a POST to register can name
PostedUserTypes == {"agent", "broker", "buyer"}

\* a session without the keys of the agent registration
EmptySession == [pending_agent_application |-> NoUser,
                 agent_registration |-> FALSE]

\* CustomUserCreationForm.is_valid(): the ChoiceField user_type accepts the
\* listed choices only; complete stands for the other fields being valid
CustomUserCreationForm_is_valid(user_type, complete) ==
    complete /\ user_type \in REGISTRATION_USER_TYPES

\* the row register() saves for a buyer or a broker
RegisteredRow(user_type, t) ==
    UserRow(user_type, TRUE, TRUE, t, FALSE, EmptyMap, FALSE, FALSE)

\* views.register, POST from browser w
register(w, user_type, complete) ==
    LET pk == Len(users) + 1
        t == now + 1
    IN  IF ~CustomUserCreationForm_is_valid(user_type, complete)
        THEN /\ last' = Reply("register", NoUser, {}, user_type,
                              IF complete THEN "complete" ELSE "incomplete",
                              "invalid")
             /\ UNCHANGED <<users, applications, requests, logs,
                            notifications, sessions, inflight, now>>
        ELSE IF user_type = "agent"
        THEN /\ users' = Append(users, RegisteredAgentRow)
             /\ inflight' =
                   [inflight EXCEPT ![w] =
                       [pending_agent_application |-> pk,
                        agent_registration |-> TRUE]]
             /\ last' = Reply("register", pk, {pk}, user_type, "complete",
                              "agent_application")
             /\ UNCHANGED <<applications, requests, logs, notifications,
                            sessions, now>>
        ELSE /\ now < MaxTime
             /\ now' = t
             /\ users' = Append(users, RegisteredRow(user_type, t))
             /\ sessions' = sessions \cup {pk}
             /\ last' = Reply("register", pk, {pk}, user_type, "complete",
                              "done")
             /\ UNCHANGED <<applications, requests, logs, notifications,
                            inflight>>

\* views.agent_application, POST from browser w: the applicant is the
\* account the session names
agent_application_post(w, complete) ==
    LET user_id == inflight[w].pending_agent_application
    IN  IF user_id = NoUser \/ user_id \notin DOMAIN users
        THEN /\ last' = Reply("agent_application", NoUser, {}, "", "",
                              "register")
             /\ UNCHANGED <<users, applications, requests, logs,
                            notifications, sessions, inflight, now>>
        ELSE IF ~complete
        THEN /\ last' = Reply("agent_application", user_id, {user_id}, "",
                              "", "invalid")
             /\ UNCHANGED <<users, applications, requests, logs,
                            notifications, sessions, inflight, now>>
        ELSE /\ applications' =
                   [a \in (DOMAIN applications) \cup {user_id} |->
                       IF a = user_id
                       THEN ApplicationRow("pending", NoTime, NoUser)
                       ELSE applications[a]]
             /\ inflight' = [inflight EXCEPT ![w] = EmptySession]
             /\ last' = Reply("agent_application", user_id, {user_id}, "",
                              "", "done")
             /\ UNCHANGED <<users, requests, logs, notifications, sessions,
                            now>>

\* the state after setup_admin_users, nobody has registered
RegisterInit ==
    /\ users = <<SuperAdminRow>>
    /\ applications = [a \in {} |-> 0]
    /\ requests = <<>>
    /\ logs = <<>>
    /\ notifications = <<>>
    /\ sessions = {}
    /\ inflight = [w \in 1..NumWorkers |-> EmptySession]
    /\ now = 0
    /\ last = NoRequest

RegisterNext ==
    \/ \E w \in 1..NumWorkers, user_type \in PostedUserTypes,
          complete \in BOOLEAN : register(w, user_type, complete)
    \/ \E w \in 1..NumWorkers, complete \in BOOLEAN :
          agent_application_post(w, complete)
    \/ \E u \in DOMAIN users, authenticated \in BOOLEAN :
          user_login(u, authenticated)
    \/ \E queryset \in (SUBSET DOMAIN users) \ {{}} : make_agents(queryset)

SpecRegister == RegisterInit /\ [][RegisterNext]_vars

(***************************************************************************)
(* Claim about the registration of an agent (checked under SpecRegister).  *)
(***************************************************************************)
\* C24: a complete registration that names the role agent creates an
\* account with user_type agent that is inactive and unverified; the
\* complete application submitted for it creates an application in status
\* pending and leaves the account inactive.
C24_AgentRegistration ==
    [][/\ last'.op = "register" /\ last'.arg = "agent"
          /\ last'.notes = "complete"
          => /\ Len(users') = Len(users) + 1
             /\ users'[Len(users')].user_type = "agent"
             /\ ~users'[Len(users')].is_active
             /\ ~users'[Len(users')].is_verified
       /\ last'.op = "agent_application" /\ last'.outcome = "done"
          => \A a \in last'.target :
                /\ a \in DOMAIN applications'
                /\ applications'[a].status = "pending"
                /\ ~users'[a].is_active]_vars

(***************************************************************************)
(* Capability checks of requests made in a session.  Every account has     *)
(* logged in before the first permission request is made; a session ends   *)
(* with user_logout.                                                       *)
(***************************************************************************)
\* views.user_logout
user_logout(u) ==
    /\ u \in sessions
    /\ sessions' = sessions \ {u}
    /\ last' = Reply("user_logout", u, {u}, "", "", "done")
    /\ UNCHANGED <<users, applications, requests, logs, notifications,
                   inflight, now>>

\* a view of the normal admin area that asks request.user for a capability,
\* as normal_admin_properties asks for can_manage_properties(): request.user
\* is the row of the account the session names, as it is stored when the
\* request is made
normal_admin_capability_view(actor, capability) ==
    IF actor \in sessions /\ is_admin_user(users[actor])
    THEN CheckCapability(actor, capability)
    ELSE login_redirect("normal_admin_properties", actor)

SessionInit ==
    /\ users = [u \in {SuperAdminId} \cup AdminIds |->
                  IF u = SuperAdminId THEN SuperAdminRow ELSE NormalAdminRow]
    /\ applications = [a \in {} |-> 0]
    /\ requests = <<>>
    /\ logs = <<>>
    /\ notifications = <<>>
    /\ sessions = {SuperAdminId} \cup AdminIds
    /\ inflight = [w \in 1..NumWorkers |-> Idle]
    /\ now = 0
    /\ last = NoRequest

SessionNext ==
    \/ \E u \in DOMAIN users : user_logout(u)
    \/ \E admin \in sessions, permission_type \in RequestedPermissions,
          complete \in BOOLEAN :
          normal_admin_request_permission_check(1, admin, permission_type,
                                                complete)
    \/ normal_admin_request_permission_insert(1)
    \/ \E actor \in sessions : super_admin_permission_requests(actor)
    \/ \E actor \in DOMAIN users, capability \in RequestedPermissions :
          normal_admin_capability_view(actor, capability)

SpecSession == SessionInit /\ [][SessionNext]_vars

(***************************************************************************)
(* Claim about permissions in a session (checked under SpecSession).       *)
(***************************************************************************)
\* the row of an account when its session was established
RowAtLogin(u) == IF u = SuperAdminId THEN SuperAdminRow ELSE NormalAdminRow

\* C25: a capability check made in a session answers from the permissions
\* the account held when the session was established: after the approval
\* of a request the checks in the existing session of the admin keep
\* denying.
C25_SessionSnapshot ==
    [][last'.op = "can" /\ last'.actor \in sessions
       => last'.ok = can(RowAtLogin(last'.actor), last'.arg)]_vars

(***************************************************************************)
(* Concurrent reviewers.  Django runs each statement of a handler in its   *)
(* own transaction (autocommit; no handler opens transaction.atomic or     *)
(* uses select_for_update), so the statements of two requests interleave.  *)
(* In this specification inflight[w] holds the position of the request     *)
(* worker w is serving and the model instances it has loaded.              *)
(***************************************************************************)
\* the admin whose requests are pending when the reviewers start
RequestingAdmin == SuperAdminId + 1

\* the worker has passed
\* AdminPermissionRequest.objects.get(pk=request_id, status='pending')
Resolving(actor, id, action, self, pc) ==
    [pc |-> pc, actor |-> actor, id |-> id, action |-> action, self |-> self]

\* views.super_admin_permission_requests, lines 701-707: the gate and the
\* lookup of the pending request
permission_request_get(w, actor, request_id, action) ==
    /\ inflight[w] = Idle
    /\ actor \in DOMAIN users
    /\ action \in {"approve", "reject"}
    /\ IF ~views_is_super_admin(users[actor])
       THEN login_redirect("super_admin_permission_requests", actor)
       ELSE IF ~get_pending(request_id)
       THEN /\ last' = Reply("super_admin_permission_requests", actor,
                             {request_id}, action, "", "not_found")
            /\ UNCHANGED <<users, applications, requests, logs,
                           notifications, sessions, inflight, now>>
       ELSE /\ inflight' =
                  [inflight EXCEPT ![w] =
                      Resolving(actor, request_id, action,
                                requests[request_id], "get")]
            /\ last' = Reply("super_admin_permission_requests", actor,
                             {request_id}, action, "get", "running")
            /\ UNCHANGED <<users, applications, requests, logs,
                           notifications, sessions, now>>

\* approve_request, lines 486-488: self.requesting_admin is loaded and the
\* key is set in the loaded instance
approve_request_requesting_admin(w) ==
    /\ inflight[w] # Idle
    /\ inflight[w].pc = "get" /\ inflight[w].action = "approve"
    /\ LET self == inflight[w].self
           row == users[self.requesting_admin]
       IN  /\ inflight' =
                 [inflight EXCEPT ![w] =
                     [pc |-> "requesting_admin", actor |-> @.actor,
                      id |-> @.id, action |-> @.action, self |-> self,
                      requesting_admin |->
                          [row EXCEPT !.admin_permissions =
                              SetKey(@, self.permission_type)]]]
           /\ last' = Reply("super_admin_permission_requests",
                            inflight[w].actor, {inflight[w].id}, "approve",
                            "requesting_admin", "running")
    /\ UNCHANGED <<users, applications, requests, logs, notifications,
                   sessions, now>>

\* self.requesting_admin.save(): every column of the row is written from
\* the loaded instance
requesting_admin_save(table, admin, instance, permission_type) ==
    [table EXCEPT ![admin] = instance]

\* approve_request, line 489
approve_request_requesting_admin_save(w) ==
    /\ inflight[w] # Idle
    /\ inflight[w].pc = "requesting_admin"
    /\ LET self == inflight[w].self
       IN  users' = requesting_admin_save(users, self.requesting_admin,
                                          inflight[w].requesting_admin,
                                          self.permission_type)
    /\ inflight' = [inflight EXCEPT ![w].pc = "requesting_admin.save"]
    /\ last' = Reply("super_admin_permission_requests", inflight[w].actor,
                     {inflight[w].id}, "approve", "requesting_admin.save",
                     "running")
    /\ UNCHANGED <<applications, requests, logs, notifications, sessions,
                   now>>

\* the end of a handler whose save() raised IntegrityError
ResolutionRaised(w) ==
    /\ inflight' = [inflight EXCEPT ![w] = Idle]
    /\ last' = Reply("super_admin_permission_requests", inflight[w].actor,
                     {inflight[w].id}, inflight[w].action, "save",
                     "IntegrityError")

\* self.save() of a request: every column of the row is written from the
\* loaded instance, under the unique constraint
request_save(w, instance) ==
    LET id == inflight[w].id
    IN  IF unique_together(requests, instance, id)
        THEN /\ requests' = [requests EXCEPT ![id] = instance]
             /\ inflight' = [inflight EXCEPT ![w].pc = "save",
                                             ![w].self = instance]
             /\ last' = Reply("super_admin_permission_requests",
                              inflight[w].actor, {id}, inflight[w].action,
                              "save", "running")
        ELSE /\ requests' = requests
             /\ ResolutionRaised(w)

\* approve_request, lines 492-496
approve_request_save(w) ==
    /\ inflight[w] # Idle
    /\ inflight[w].pc = "requesting_admin.save"
    /\ now < MaxTime
    /\ now' = now + 1
    /\ request_save(w, [inflight[w].self EXCEPT
                           !.status = "approved", !.reviewed_at = now + 1,
                           !.reviewed_by = inflight[w].actor,
                           !.granted_at = now + 1])
    /\ UNCHANGED <<users, applications, logs, notifications, sessions>>

\* reject_request, lines 521-525
reject_request_save(w) ==
    /\ inflight[w] # Idle
    /\ inflight[w].pc = "get" /\ inflight[w].action = "reject"
    /\ now < MaxTime
    /\ now' = now + 1
    /\ request_save(w, [inflight[w].self EXCEPT
                           !.status = "rejected", !.reviewed_at = now + 1,
                           !.reviewed_by = inflight[w].actor,
                           !.review_notes = ""])
    /\ UNCHANGED <<users, applications, logs, notifications, sessions>>

\* approve_request, lines 499-515, and reject_request, lines 528-544: the
\* log entry is created without ip_address; the notification follows when
\* the log entry could be stored
resolution_log_and_notify(w) ==
    /\ inflight[w] # Idle
    /\ inflight[w].pc = "save"
    /\ LET self == inflight[w].self
           approving == inflight[w].action = "approve"
           entry == IF approving
                    THEN LogRow(inflight[w].actor, "permission", "User",
                                self.requesting_admin, Null, TRUE)
                    ELSE LogRow(inflight[w].actor, "permission",
                                "AdminPermissionRequest", inflight[w].id,
                                Null, FALSE)
           logged == LogInsertable(entry)
       IN  /\ logs' = AdminActivityLog_create(logs, entry)
           /\ notifications' =
                 IF logged
                 THEN Append(notifications,
                             NotificationRow(
                                 IF approving
                                 THEN "Permission Request Approved"
                                 ELSE "Permission Request Rejected",
                                 IF approving THEN "high" ELSE "medium",
                                 self.requesting_admin))
                 ELSE notifications
           /\ last' = Reply("super_admin_permission_requests",
                            inflight[w].actor, {inflight[w].id},
                            inflight[w].action, "",
                            IF logged THEN "done" ELSE "IntegrityError")
    /\ inflight' = [inflight EXCEPT ![w] = Idle]
    /\ UNCHANGED <<users, applications, requests, sessions, now>>

\* approve_applications, line 171: the loop evaluates the filtered queryset
approve_applications_queryset(w, reviewer, queryset) ==
    /\ inflight[w] = Idle
    /\ reviewer \in DjangoAdmins
    /\ queryset # {} /\ queryset \subseteq DOMAIN applications
    /\ LET eligible == {a \in queryset :
                          applications[a].status \in {"pending", "under_review"}}
       IN  /\ inflight' =
                 IF eligible = {} THEN inflight
                 ELSE [inflight EXCEPT ![w] =
                          [pc |-> "queryset", actor |-> reviewer,
                           queryset |-> queryset, todo |-> eligible,
                           updated |-> 0]]
           /\ last' = IF eligible = {}
                      THEN Answer("approve_applications", reviewer, queryset,
                                  "", 0, FALSE)
                      ELSE Reply("approve_applications", reviewer, queryset,
                                 "", "queryset", "running")
    /\ UNCHANGED <<users, applications, requests, logs, notifications,
                   sessions, now>>

\* the application the loop of worker w is at
Current(w) == CHOOSE a \in inflight[w].todo :
                 \A b \in inflight[w].todo : a <= b

\* approve_applications, lines 173-176: application.save()
approve_applications_application_save(w) ==
    /\ inflight[w] # Idle
    /\ inflight[w].pc = "queryset"
    /\ now < MaxTime
    /\ now' = now + 1
    /\ applications' =
          [applications EXCEPT
              ![Current(w)] = ApplicationRow("approved", now + 1,
                                             inflight[w].actor)]
    /\ inflight' = [inflight EXCEPT ![w].pc = "application.save"]
    /\ last' = Reply("approve_applications", inflight[w].actor,
                     {Current(w)}, "", "application.save", "running")
    /\ UNCHANGED <<users, requests, logs, notifications, sessions>>

\* approve_applications, lines 179-183: application.applicant is loaded,
\* changed and saved; after the last row the message reports the count
approve_applications_applicant_save(w) ==
    /\ inflight[w] # Idle
    /\ inflight[w].pc = "application.save"
    /\ users' = [users EXCEPT
                    ![Current(w)] = approve_applications_applicant(@, now)]
    /\ LET todo == inflight[w].todo \ {Current(w)}
           updated == inflight[w].updated + 1
       IN  IF todo = {}
           THEN /\ inflight' = [inflight EXCEPT ![w] = Idle]
                /\ last' = Answer("approve_applications", inflight[w].actor,
                                  inflight[w].queryset, "", updated, TRUE)
           ELSE /\ inflight' = [inflight EXCEPT ![w].pc = "queryset",
                                                ![w].todo = todo,
                                                ![w].updated = updated]
                /\ last' = Reply("approve_applications", inflight[w].actor,
                                 {Current(w)}, "", "applicant.save",
                                 "running")
    /\ UNCHANGED <<applications, requests, logs, notifications, sessions,
                   now>>

\* the admin has two requests pending and every agent an application
RaceInit ==
    /\ users = [u \in {SuperAdminId} \cup AdminIds \cup ManagedAgentIds |->
                  IF u = SuperAdminId THEN SuperAdminRow
                  ELSE IF u \in AdminIds THEN NormalAdminRow
                  ELSE RegisteredAgentRow]
    /\ applications = [a \in ManagedAgentIds |->
                          ApplicationRow("pending", NoTime, NoUser)]
    /\ requests = <<RequestRow(RequestingAdmin, "manage_payments"),
                    RequestRow(RequestingAdmin, "manage_users")>>
    /\ logs = <<>>
    /\ notifications = <<>>
    /\ sessions = {}
    /\ inflight = [w \in 1..NumWorkers |-> Idle]
    /\ now = 0
    /\ last = NoRequest

RaceNext ==
    \/ \E w \in 1..NumWorkers, request_id \in DOMAIN requests,
          action \in {"approve", "reject"} :
          permission_request_get(w, SuperAdminId, request_id, action)
    \/ \E w \in 1..NumWorkers : approve_request_requesting_admin(w)
    \/ \E w \in 1..NumWorkers : approve_request_requesting_admin_save(w)
    \/ \E w \in 1..NumWorkers : approve_request_save(w)
    \/ \E w \in 1..NumWorkers : reject_request_save(w)
    \/ \E w \in 1..NumWorkers : resolution_log_and_notify(w)
    \/ \E w \in 1..NumWorkers, queryset \in (SUBSET ManagedAgentIds) \ {{}} :
          approve_applications_queryset(w, SuperAdminId, queryset)
    \/ \E w \in 1..NumWorkers : approve_applications_application_save(w)
    \/ \E w \in 1..NumWorkers : approve_applications_applicant_save(w)

SpecRace == RaceInit /\ [][RaceNext]_vars

(***************************************************************************)
(* Claims about concurrent reviewers (checked under SpecRace).             *)
(***************************************************************************)
\* no handler is between two of its statements
Quiescent == \A w \in DOMAIN inflight : inflight[w] = Idle

\* the admin's stored map holds the permission the request names
BitGranted(r) ==
    Get(users[r.requesting_admin].admin_permissions, r.permission_type)

\* C26: a transition and its cascade are atomic: in no reachable state,
\* the states between the writes of a handler included, is an application
\* approved while the account of its applicant is not active and verified,
\* and in none is a permission held while its request is still pending.
C26_TransitionAndCascadeAtomic ==
    /\ \A a \in DOMAIN applications :
          applications[a].status = "approved"
             => users[a].is_active /\ users[a].is_verified
    /\ \A i \in DOMAIN requests :
          requests[i].status = "pending" => ~BitGranted(requests[i])

\* the workers that have written the cascade of request id and not yet
\* ended
CascadeWritten(table, id) ==
    {w \in DOMAIN table :
        /\ table[w] # Idle
        /\ table[w].pc \in {"requesting_admin.save", "save"}
        /\ table[w].action = "approve"
        /\ table[w].id = id}

\* C27: a pending request or application is resolved at most once: the
\* write of a cascade and the write of a status happen for an item that is
\* still pending in the table, and the cascade of an item is written by at
\* most one of the reviewers working on it.
C27_ResolvedAtMostOnce ==
    [][/\ /\ last'.op = "super_admin_permission_requests"
          /\ last'.notes \in {"requesting_admin.save", "save"}
          /\ last'.outcome = "running"
          => \A id \in last'.target :
                /\ requests[id].status = "pending"
                /\ Cardinality(CascadeWritten(inflight', id)) <= 1
       /\ /\ last'.op = "approve_applications"
          /\ last'.notes = "application.save"
          => \A a \in last'.target :
                applications[a].status \in {"pending", "under_review"}]_vars

\* C28: when the handlers have ended, every request that is stored as
\* approved has its permission in the map of the requesting admin: two
\* requests of one admin approved concurrently leave both permissions
\* granted.
C28_ConcurrentApprovalsBothGranted ==
    Quiescent
    => \A i \in DOMAIN requests :
          requests[i].status = "approved" => BitGranted(requests[i])

\* C29: when the handlers have ended, a permission the admin's map has
\* gained is backed by a request of that admin for that permission with
\* status approved and granted_at set, also after a concurrent approval
\* and rejection of one request.
C29_GrantedBitHasApprovedRequest ==
    Quiescent
    => \A admin \in AdminIds, permission_type \in PermissionKeys :
          /\ Get(users[admin].admin_permissions, permission_type)
          /\ ~Get(NormalAdminRow.admin_permissions, permission_type)
          => \E i \in DOMAIN requests :
                /\ requests[i].requesting_admin = admin
                /\ requests[i].permission_type = permission_type
                /\ requests[i].status = "approved"
                /\ requests[i].granted_at # NoTime

====
